---- MODULE Spec2Model ----
(***************************************************************************)
(* FitAI Telegram bot: the intake conversation, the session reconciliation *)
(* and the message exchange with the remote assistant, as a state machine. *)
(*                                                                         *)
(* Sources: src/chatbot/bot.py (handlers) and src/chatbot/assistant.py     *)
(* (thin wrappers around the remote assistant API).                        *)
(*                                                                         *)
(* The handlers are coroutines dispatched one update at a time, and every  *)
(* store and assistant call in them is a blocking call (wait_on_run sleeps *)
(* with time.sleep), so at most one handler is in progress in the process. *)
(* A handler that waits for a run is the only one that spans several       *)
(* steps: the remote run advances between its polls.                       *)
(*                                                                         *)
(* Updates that no handler of the conversation's state takes (a text in    *)
(* SHARE_CONTACT, a contact elsewhere, /start inside a conversation)       *)
(* change nothing and are left out.  reply_text is taken to succeed; the   *)
(* store and the assistant calls may each fail, one call per update.       *)
(***************************************************************************)
EXTENDS Integers, Sequences, FiniteSets, TLC

\* ------------------------------------------------------------------ bounds

\* Threads the remote backend will create (thread ids are 1..MaxThreads).
MaxThreads == 3
\* Messages the users will post on one thread (each run answers one of them).
MaxMsgs == 2
\* /start commands one user will send.
MaxStarts == 2

\* Telegram users (update.effective_user.id).
Users == {1, 2}

\* ------------------------------------------------------------- input texts
\* A text is a sequence of characters.  Alphabet of the inputs below:
\* digits, ".", "-", " ", and the letters of "abc" and "nan".

T_abc == <<"a", "b", "c">>
T_zero == <<"0">>
T_120 == <<"1", "2", "0">>
T_70_5 == <<"7", "0", ".", "5">>
T_nan == <<"n", "a", "n">>
T_501 == <<"5", "0", "1">>
T_neg5 == <<"-", "5">>
T_sp120 == <<" ", "1", "2", "0">>

\* update.message.text of the text messages a user sends.
Texts == {T_abc, T_zero, T_120, T_70_5, T_nan, T_501, T_neg5, T_sp120}

\* Texts sent once the conversation is ONGOING (handle_message parses nothing).
ChatTexts == {T_abc}

\* ----------------------------------------------------------- text parsing

DigitChars == <<"0", "1", "2", "3", "4", "5", "6", "7", "8", "9">>

IsDigit(c) == \E d \in 1..10 : DigitChars[d] = c

DigitVal(c) == (CHOOSE d \in 1..10 : DigitChars[d] = c) - 1

IsSpace(c) == c = " "

RECURSIVE LStrip(_)
LStrip(s) == IF s # <<>> /\ IsSpace(Head(s)) THEN LStrip(Tail(s)) ELSE s

RECURSIVE RStrip(_)
RStrip(s) ==
    IF s # <<>> /\ IsSpace(s[Len(s)]) THEN RStrip(SubSeq(s, 1, Len(s) - 1)) ELSE s

\* str.strip(), which int() and float() apply to their argument.
Strip(s) == RStrip(LStrip(s))

AllDigits(s) == \A i \in 1..Len(s) : IsDigit(s[i])

RECURSIVE DigitsValue(_)
DigitsValue(s) ==
    IF s = <<>> THEN 0
    ELSE 10 * DigitsValue(SubSeq(s, 1, Len(s) - 1)) + DigitVal(s[Len(s)])

RECURSIVE Pow10(_)
Pow10(n) == IF n = 0 THEN 1 ELSE 10 * Pow10(n - 1)

HasSign(s) == s # <<>> /\ s[1] \in {"+", "-"}
IsNegative(s) == s # <<>> /\ s[1] = "-"
Unsigned(s) == IF HasSign(s) THEN Tail(s) ELSE s

RECURSIVE StripZeros(_)
StripZeros(s) ==
    IF s # <<>> /\ s[Len(s)] = "0" THEN StripZeros(SubSeq(s, 1, Len(s) - 1)) ELSE s

\* int(text): optional sign and decimal digits, surrounding blanks ignored;
\* anything else raises ValueError (ok = FALSE).
ParseInt(text) ==
    LET t == Strip(text)
        body == Unsigned(t)
    IN  IF body # <<>> /\ AllDigits(body)
        THEN [ok |-> TRUE,
              val |-> IF IsNegative(t) THEN 0 - DigitsValue(body) ELSE DigitsValue(body)]
        ELSE [ok |-> FALSE]

\* A float: a decimal number num/den (den a power of ten, fraction without
\* trailing zeros), an infinity, or NaN.
Num(n, d) == [kind |-> "num", num |-> n, den |-> d]
NaN == [kind |-> "nan"]
Inf(neg) == [kind |-> "inf", neg |-> neg]

\* float(text): optional sign, then "nan", "inf"/"infinity", or digits with at
\* most one "." and at least one digit; anything else raises ValueError.
ParseFloat(text) ==
    LET t == Strip(text)
        neg == IsNegative(t)
        body == Unsigned(t)
        dots == {i \in 1..Len(body) : body[i] = "."}
    IN  IF body = <<"n", "a", "n">> THEN [ok |-> TRUE, val |-> NaN]
        ELSE IF body \in {<<"i", "n", "f">>, <<"i", "n", "f", "i", "n", "i", "t", "y">>}
        THEN [ok |-> TRUE, val |-> Inf(neg)]
        ELSE IF dots = {}
        THEN IF body # <<>> /\ AllDigits(body)
             THEN [ok |-> TRUE,
                   val |-> Num(IF neg THEN 0 - DigitsValue(body) ELSE DigitsValue(body), 1)]
             ELSE [ok |-> FALSE]
        ELSE IF Cardinality(dots) = 1
        THEN LET i == CHOOSE j \in dots : TRUE
                 ip == SubSeq(body, 1, i - 1)
                 fp == StripZeros(SubSeq(body, i + 1, Len(body)))
                 allfp == SubSeq(body, i + 1, Len(body))
                 v == DigitsValue(ip \o fp)
             IN  IF AllDigits(ip) /\ AllDigits(allfp) /\ (ip # <<>> \/ allfp # <<>>)
                 THEN [ok |-> TRUE,
                       val |-> Num(IF neg THEN 0 - v ELSE v, Pow10(Len(fp)))]
                 ELSE [ok |-> FALSE]
        ELSE [ok |-> FALSE]

\* x <= 0 and x > k on floats, as Python compares them: every comparison
\* with NaN is False.
FloatLeZero(x) ==
    CASE x.kind = "num" -> x.num <= 0
      [] x.kind = "inf" -> x.neg
      [] x.kind = "nan" -> FALSE

FloatGt(x, k) ==
    CASE x.kind = "num" -> x.num > k * x.den
      [] x.kind = "inf" -> ~x.neg
      [] x.kind = "nan" -> FALSE

\* ------------------------------------------------------------ dictionaries
\* A Python dict is a function from its keys; a missing key is outside DOMAIN.

EmptyDict == <<>>
Has(d, k) == k \in DOMAIN d
Put(d, k, v) == (k :> v) @@ d
\* dict.update(other): other's items win.
Update(d, other) == other @@ d

\* --------------------------------------------------------------- constants

\* SHARE_CONTACT, GET_AGE, GET_WEIGHT, GET_HEIGHT, ONGOING = range(5);
\* "END" is ConversationHandler.END: the user has no conversation (the
\* spec's CANCELLED).
StateNames == <<"SHARE_CONTACT", "GET_AGE", "GET_WEIGHT", "GET_HEIGHT", "ONGOING">>
ConvStates == {"END", "SHARE_CONTACT", "GET_AGE", "GET_WEIGHT", "GET_HEIGHT", "ONGOING"}
StateIndex(s) == (CHOOSE i \in 1..5 : StateNames[i] = s) - 1

PolledOnlyQueued == {"queued"}

\* Run statuses of the remote backend that wait_on_run keeps polling on.
PolledStatuses == {"queued", "in_progress"}
\* Run statuses in which the backend holds the thread ("active run").
ActiveStatuses == {"queued", "in_progress", "requires_action"}

\* Collaborator calls that may fail, by call site ("none": no call fails).
ReconcileFails == {"sessions.select", "sessions.update", "create_thread", "sessions.insert"}
ContactFails == {"none", "users.select"} \cup ReconcileFails
FinalizeFails == {"none", "users.upsert", "create_message", "create_run"} \cup ReconcileFails
MessageFails == {"none", "create_message", "create_run"}
PollFails == {"none", "retrieve", "list_messages"}

MsgWelcome == "Welcome to FitAI! To get started, please share your contact information."
MsgWelcomeBack == "Welcome back"
MsgAskAge == "Thanks for sharing your contact. Now, please tell me your age."
MsgAskWeight == "Great! Now, what's your current weight in kg?"
MsgAskHeight == "Excellent! Lastly, what's your height in cm?"
MsgBadAge == "Please enter a valid age between 1 and 120."
MsgBadWeight == "Please enter a valid weight in kg (e.g., 70.5)."
MsgBadHeight == "Please enter a valid height in cm (e.g., 175.5)."
MsgForwarded == "Thanks for providing your information. I've forwarded it to one of our PTs, they will be with you shortly!"
MsgApology == "I'm sorry, but there was an error processing your information. Please try again later or contact support."
MsgNoResponse == "No response from assistant."
MsgCancelled == "The conversation has been cancelled."

\* One reply_text call: a fixed text, the welcome with the user's name, or
\* the assistant's message (ref: the run that wrote it).
Reply(text) == [text |-> text, name |-> <<>>, ref |-> 0]
ReplyWelcomeBack(name) == [text |-> MsgWelcomeBack, name |-> name, ref |-> 0]
ReplyAssistant(ref) == [text |-> "assistant", name |-> <<>>, ref |-> ref]

\* ------------------------------------------------------------------- state

VARIABLES
    conv,       \* ConversationHandler's state of each user's conversation
    user_data,  \* context.user_data of each user (a dict, kept in memory)
    users,      \* rows of the store's "users" table, in insertion order
    sessions,   \* rows of the store's "assistant_sessions" table, in insertion order
    threads,    \* the remote backend's threads: messages and runs of each
    turn,       \* the handler that is waiting on a run, if any
    last,       \* the update handled last: its replies and the calls it made
    starts      \* /start commands each user may still send

vars == <<conv, user_data, users, sessions, threads, turn, last, starts>>

Idle == [kind |-> "idle"]

NewThread == [msgs |-> <<>>, runs |-> <<>>]

\* The contact a user shares (update.message.contact).
ContactOf(u) ==
    [phone_number |-> <<"5", "5", DigitChars[u + 1]>>,
     first_name |-> IF u = 1 THEN <<"A", "n", "n">> ELSE <<"B", "o">>,
     last_name |-> IF u = 1 THEN <<>> ELSE <<"L", "i">>]

\* A store left by an earlier run of the process: user 1 has a profile and
\* two session rows, the newer one not yet ONGOING.
OldUsers ==
    <<[id |-> 1, telegram_id |-> 1, name |-> <<"A">>, phone |-> <<"5", "5", "1">>,
       age |-> 30, weight |-> Num(705, 10), height |-> Num(30, 1)]>>

OldSessions ==
    <<[id |-> 1, user_id |-> 1, thread_id |-> 1, state |-> "ONGOING"],
      [id |-> 2, user_id |-> 1, thread_id |-> 2, state |-> "STARTED"]>>

NoEvent == [u |-> 0, ev |-> "none", replies |-> <<>>, err |-> "none",
            escaped |-> FALSE, calls |-> <<>>, goc |-> "none", upserted |-> <<>>]

\* The process has just started: no conversation, no user_data; the store is
\* empty or holds what an earlier run left.  One of the users converses with
\* the bot in a behaviour of Spec, and sends /start at most MaxStarts times.
Init ==
    /\ conv = [u \in Users |-> "END"]
    /\ user_data = [u \in Users |-> EmptyDict]
    /\ \/ users = <<>> /\ sessions = <<>> /\ threads = <<>>
       \/ users = OldUsers /\ sessions = OldSessions /\ threads = <<NewThread, NewThread>>
    /\ turn = Idle
    /\ last = NoEvent
    /\ \E u \in Users : starts = [v \in Users |-> IF v = u THEN MaxStarts ELSE 0]

\* ------------------------------------------------------------ the handlers
\* A handler works on w: the user's dict, the store, the remote threads, the
\* replies sent and the calls made so far, and the exception raised, if any.

Work(u) ==
    [ud |-> user_data[u], users |-> users, sessions |-> sessions,
     threads |-> threads, out |-> <<>>, calls |-> <<>>, err |-> "none",
     goc |-> "none", upserted |-> <<>>]

Called(w, site) == [w EXCEPT !.calls = Append(@, site)]
Raise(w, e) == [w EXCEPT !.err = e]
Send(w, r) == [w EXCEPT !.out = Append(@, r)]
Failed(w) == w.err # "none"

\* f"{contact.first_name or ''} {contact.last_name or ''}".strip()
FullName(contact) == Strip(contact.first_name \o <<" ">> \o contact.last_name)

\* supabase.table("users").select("*").eq("telegram_id", telegram_id)
SelectUsers(rows, telegram_id) ==
    SelectSeq(rows, LAMBDA r : r.telegram_id = telegram_id)

\* .upsert(user_data, on_conflict="telegram_id"): the row with this
\* telegram_id takes the new values and keeps its id, or a new row is added.
UpsertUser(rows, data) ==
    IF \E i \in 1..Len(rows) : rows[i].telegram_id = data.telegram_id
    THEN [i \in 1..Len(rows) |->
            IF rows[i].telegram_id = data.telegram_id
            THEN Put(data, "id", rows[i].id) ELSE rows[i]]
    ELSE Append(rows, Put(data, "id", Len(rows) + 1))

LatestSessionOldest(rows, user_id) ==
    LET mine == {i \in 1..Len(rows) : rows[i].user_id = user_id}
    IN  IF mine = {} THEN <<>>
        ELSE <<rows[CHOOSE i \in mine : \A j \in mine : rows[i].id <= rows[j].id]>>

\* ...select("*").eq("user_id", user_id).order("id", desc=True).limit(1)
LatestSession(rows, user_id) ==
    LET mine == {i \in 1..Len(rows) : rows[i].user_id = user_id}
    IN  IF mine = {} THEN <<>>
        ELSE <<rows[CHOOSE i \in mine : \A j \in mine : rows[j].id <= rows[i].id]>>

SetSessionStateSkipped(rows, session_id, state) == rows

\* .update({"state": "ONGOING"}).eq("id", session_id)
SetSessionState(rows, session_id, state) ==
    [i \in 1..Len(rows) |->
        IF rows[i].id = session_id THEN [rows[i] EXCEPT !.state = state] ELSE rows[i]]

InsertSessionStarted(rows, data) ==
    Append(rows, Put(Put(data, "state", "STARTED"), "id", Len(rows) + 1))

InsertSessionWrongUser(rows, data) ==
    Append(rows, Put(Put(data, "user_id", data.user_id + 1), "id", Len(rows) + 1))

\* .insert(session_data): the new row gets the next id.
InsertSession(rows, data) == Append(rows, Put(data, "id", Len(rows) + 1))

\* get_or_create_session, lines 108-138.  Lines 140-151 only log inside
\* their try block, so the except branch (replacement thread) never runs.
GetOrCreateSession(w0, fail) ==
    IF ~Has(w0.ud, "id") THEN Raise(w0, "KeyError")
    ELSE
    LET user_id == w0.ud["id"]
        w1 == Called(w0, "sessions.select")
        found == LatestSession(w1.sessions, user_id)
    IN  IF fail = "sessions.select" THEN Raise(w1, fail)
        ELSE IF found # <<>>
        THEN LET session == found[1]
                 w2 == [w1 EXCEPT
                          !.ud = Put(Put(@, "thread_id", session.thread_id),
                                     "session_id", session.id),
                          !.goc = "found"]
                 w3 == Called(w2, "sessions.update")
             IN  IF session.state # "ONGOING"
                 THEN IF fail = "sessions.update" THEN Raise(w3, fail)
                      ELSE [w3 EXCEPT !.sessions =
                                SetSessionState(@, session.id, "ONGOING")]
                 ELSE w2
        ELSE LET w2 == Called(w1, "create_thread")
                 thread_id == Len(w2.threads) + 1
                 w3 == [w2 EXCEPT !.threads = Append(@, NewThread),
                                  !.ud = Put(@, "thread_id", thread_id)]
                 w4 == Called(w3, "sessions.insert")
                 rows == InsertSession(w4.sessions,
                            [user_id |-> user_id, thread_id |-> thread_id,
                             state |-> "ONGOING"])
             IN  IF fail = "create_thread" THEN Raise(w2, fail)
                 ELSE IF fail = "sessions.insert" THEN Raise(w4, fail)
                 ELSE [w4 EXCEPT !.sessions = rows,
                                 !.ud = Put(@, "session_id", rows[Len(rows)].id),
                                 !.goc = "created"]

\* create_message(thread_id, content): a user message is appended.
CreateMessage(w, thread_id, content, fail) ==
    LET w1 == Called(w, "create_message")
    IN  IF Failed(w) THEN w
        ELSE IF fail = "create_message" THEN Raise(w1, fail)
        ELSE [w1 EXCEPT !.threads[thread_id].msgs =
                  Append(@, [role |-> "user", content |-> content])]

HasActiveRun(thread) ==
    \E r \in 1..Len(thread.runs) : thread.runs[r] \in ActiveStatuses

CreateRunUnchecked(w, thread_id, fail) ==
    LET w1 == Called(w, "create_run")
    IN  IF Failed(w) THEN w
        ELSE IF fail = "create_run" THEN Raise(w1, fail)
        ELSE [w1 EXCEPT !.threads[thread_id].runs = Append(@, "queued")]

\* create_run(thread_id): a queued run is added, unless the thread already
\* has an active run (the backend's BadRequestError).
CreateRun(w, thread_id, fail) ==
    LET w1 == Called(w, "create_run")
    IN  IF Failed(w) THEN w
        ELSE IF fail = "create_run" THEN Raise(w1, fail)
        ELSE IF HasActiveRun(w1.threads[thread_id]) THEN Raise(w1, "active_run")
        ELSE [w1 EXCEPT !.threads[thread_id].runs = Append(@, "queued")]

\* list_messages(thread_id).data: newest first.
RECURSIVE Reverse(_)
Reverse(s) == IF s = <<>> THEN <<>> ELSE Append(Reverse(Tail(s)), Head(s))

ListMessagesOldestFirst(thread) == thread.msgs

ListMessages(thread) == Reverse(thread.msgs)

ResponseOfNoRole(messages) == Reply(MsgNoResponse)

\* next((msg.content[0].text.value for msg in messages
\*       if msg.role == 'assistant'), "No response from assistant.")
Response(messages) ==
    LET idx == {i \in 1..Len(messages) : messages[i].role = "assistant"}
    IN  IF idx = {} THEN Reply(MsgNoResponse)
        ELSE ReplyAssistant(messages[CHOOSE i \in idx : \A j \in idx : i <= j].content.run)

AgeRejectedOffByOne(age) == age <= 0 \/ age >= 120

\* if age <= 0 or age > 120: raise ValueError()
AgeRejected(age) == age <= 0 \/ age > 120
\* if weight <= 0 or weight > 500: raise ValueError()
WeightRejected(weight) == FloatLeZero(weight) \/ FloatGt(weight, 500)
\* if height <= 0 or height > 300: raise ValueError()
HeightRejected(height) == FloatLeZero(height) \/ FloatGt(height, 300)

ProfileKeys == {"telegram_id", "name", "phone", "age", "weight", "height"}

\* The user_data dict literal of finalize_profile, lines 155-162.
ProfileOf(ud) == [k \in ProfileKeys |-> ud[k]]

\* users.upsert(...) and context.user_data['id'] = user_response.data[0]['id']
UpsertProfile(w, fail) ==
    LET w1 == Called([w EXCEPT !.upserted = ProfileOf(w.ud)], "users.upsert")
        rows == UpsertUser(w1.users, ProfileOf(w1.ud))
        row == SelectUsers(rows, w1.ud["telegram_id"])[1]
    IN  IF Failed(w) THEN w
        ELSE IF ProfileKeys \ DOMAIN w.ud # {} THEN Raise(w, "KeyError")
        ELSE IF fail = "users.upsert" THEN Raise(w1, fail)
        ELSE [w1 EXCEPT !.users = rows, !.ud = Put(@, "id", row.id)]

\* finalize_profile up to create_run, lines 154-174.
FinalizeBegin(w0, fail) ==
    LET w1 == UpsertProfile(w0, fail)
        w2 == IF Failed(w1) THEN w1 ELSE GetOrCreateSession(w1, fail)
        w3 == IF Failed(w2) THEN w2 ELSE Send(w2, Reply(MsgForwarded))
        w4 == IF Failed(w3) THEN w3
              ELSE CreateMessage(w3, w3.ud["thread_id"],
                       [kind |-> "profile", data |-> ProfileOf(w0.ud)], fail)
        w5 == IF Failed(w4) THEN w4 ELSE CreateRun(w4, w4.ud["thread_id"], fail)
    IN  w5

\* handle_message up to create_run, lines 190-197.
MessageBegin(w0, text, fail) ==
    IF ~Has(w0.ud, "thread_id") \/ ~Has(w0.ud, "telegram_id") THEN Raise(w0, "KeyError")
    ELSE CreateRun(CreateMessage(w0, w0.ud["thread_id"],
                                 [kind |-> "text", text |-> text], fail),
                   w0.ud["thread_id"], fail)

\* The handler is over: its effects stay, the conversation goes to `state`
\* (its own state when the exception left the handler), and `next_turn`
\* tells whether the handler is still waiting on a run.
Done(u, w, state, ev, next_turn, escaped) ==
    /\ Len(w.threads) <= MaxThreads
    /\ \A t \in 1..Len(w.threads) :
          Cardinality({i \in 1..Len(w.threads[t].msgs) :
                          w.threads[t].msgs[i].role = "user"}) <= MaxMsgs
    /\ conv' = [conv EXCEPT ![u] = state]
    /\ user_data' = [user_data EXCEPT ![u] = w.ud]
    /\ users' = w.users
    /\ sessions' = w.sessions
    /\ threads' = w.threads
    /\ turn' = next_turn
    /\ last' = [u |-> u, ev |-> ev, replies |-> w.out, err |-> w.err,
                escaped |-> escaped, calls |-> w.calls, goc |-> w.goc,
                upserted |-> w.upserted]

EscapedEndsConversation(u, w, ev) == Done(u, w, "END", ev, Idle, TRUE)

\* An exception leaves the handler: ConversationHandler keeps the state the
\* conversation was in, and nothing is sent to the user.
Escaped(u, w, ev) == Done(u, w, conv[u], ev, Idle, TRUE)

Waiting(kind, u, w) ==
    [kind |-> kind, u |-> u, thread |-> w.ud["thread_id"],
     run |-> Len(w.threads[w.ud["thread_id"]].runs), status |-> "queued"]

\* /start, the entry point: taken only when the user has no conversation.
Start(u) ==
    /\ turn = Idle
    /\ conv[u] = "END"
    /\ starts[u] > 0
    /\ starts' = [starts EXCEPT ![u] = @ - 1]
    /\ Done(u, Send(Work(u), Reply(MsgWelcome)), "SHARE_CONTACT", "start", Idle, FALSE)

\* handle_contact, lines 44-65.  It has no try block: an exception leaves
\* the handler, and the conversation stays where it was.
HandleContact(u, fail) ==
    /\ turn = Idle
    /\ conv[u] = "SHARE_CONTACT"
    /\ UNCHANGED starts
    /\ LET contact == ContactOf(u)
           w1 == [Work(u) EXCEPT !.ud =
                     Put(Put(Put(@, "telegram_id", u), "phone", contact.phone_number),
                         "name", FullName(contact))]
           w2 == Called(w1, "users.select")
           rows == SelectUsers(w2.users, u)
           w3 == [w2 EXCEPT !.ud = Update(@, rows[1])]
           w4 == GetOrCreateSession(w3, fail)
       IN  IF fail = "users.select"
           THEN Escaped(u, Raise(w2, fail), "contact")
           ELSE IF rows # <<>>
           THEN IF Failed(w4)
                THEN Escaped(u, w4, "contact")
                ELSE Done(u, Send(w4, ReplyWelcomeBack(w4.ud["name"])),
                          "ONGOING", "contact", Idle, FALSE)
           ELSE Done(u, Send(w2, Reply(MsgAskAge)), "GET_AGE", "contact", Idle, FALSE)

\* get_age, lines 67-79.
GetAge(u, text) ==
    /\ turn = Idle
    /\ conv[u] = "GET_AGE"
    /\ UNCHANGED starts
    /\ LET p == ParseInt(text)
           w == Work(u)
       IN  IF ~p.ok \/ AgeRejected(p.val)
           THEN Done(u, Send(w, Reply(MsgBadAge)), "GET_AGE", "age", Idle, FALSE)
           ELSE Done(u, Send([w EXCEPT !.ud = Put(@, "age", p.val)], Reply(MsgAskWeight)),
                     "GET_WEIGHT", "age", Idle, FALSE)

\* get_weight, lines 81-93.
GetWeight(u, text) ==
    /\ turn = Idle
    /\ conv[u] = "GET_WEIGHT"
    /\ UNCHANGED starts
    /\ LET p == ParseFloat(text)
           w == Work(u)
       IN  IF ~p.ok \/ WeightRejected(p.val)
           THEN Done(u, Send(w, Reply(MsgBadWeight)), "GET_WEIGHT", "weight", Idle, FALSE)
           ELSE Done(u, Send([w EXCEPT !.ud = Put(@, "weight", p.val)], Reply(MsgAskHeight)),
                     "GET_HEIGHT", "weight", Idle, FALSE)

\* get_height, lines 95-106, with finalize_profile up to its wait on the
\* run; finalize_profile catches every exception, apologises and ends the
\* conversation (lines 184-187).
GetHeight(u, text, fail) ==
    /\ turn = Idle
    /\ conv[u] = "GET_HEIGHT"
    /\ UNCHANGED starts
    /\ LET p == ParseFloat(text)
           w == Work(u)
           f == FinalizeBegin([w EXCEPT !.ud = Put(@, "height", p.val)], fail)
       IN  IF ~p.ok \/ HeightRejected(p.val)
           THEN Done(u, Send(w, Reply(MsgBadHeight)), "GET_HEIGHT", "height", Idle, FALSE)
           ELSE IF Failed(f)
           THEN Done(u, Send(f, Reply(MsgApology)), "END", "height", Idle, FALSE)
           ELSE Done(u, f, "GET_HEIGHT", "height", Waiting("finalize", u, f), FALSE)

\* handle_message, lines 189-197, up to its wait on the run.  No try block.
HandleMessage(u, text, fail) ==
    /\ turn = Idle
    /\ conv[u] = "ONGOING"
    /\ UNCHANGED starts
    /\ LET m == MessageBegin(Work(u), text, fail)
       IN  IF Failed(m)
           THEN Escaped(u, m, "message")
           ELSE Done(u, m, "ONGOING", "message", Waiting("message", u, m), FALSE)

CancelRestarts(u) ==
    /\ turn = Idle
    /\ conv[u] # "END"
    /\ UNCHANGED starts
    /\ Done(u, Send(Work(u), Reply(MsgCancelled)), "SHARE_CONTACT", "cancel", Idle, FALSE)

\* cancel, the fallback of every state of the conversation, lines 207-211.
Cancel(u) ==
    /\ turn = Idle
    /\ conv[u] # "END"
    /\ UNCHANGED starts
    /\ Done(u, Send(Work(u), Reply(MsgCancelled)), "END", "cancel", Idle, FALSE)

\* The handler's work so far, when it goes on after a poll.
Resume(u) ==
    [Work(u) EXCEPT !.out = last.replies, !.calls = last.calls, !.goc = last.goc,
                    !.upserted = last.upserted]

\* One iteration of wait_on_run (assistant.py lines 30-37) and, when the
\* status read is no longer polled on, the rest of the handler: list the
\* messages and reply (bot.py lines 177-182 and 200-205).
PollRun(fail) ==
    /\ turn # Idle
    /\ UNCHANGED starts
    /\ LET u == turn.u
           observed == threads[turn.thread].runs[turn.run]
           w0 == Resume(u)
           w1 == Called(w0, "list_messages")
           w == IF fail = "retrieve" THEN Raise(w0, fail)
                ELSE IF fail = "list_messages" THEN Raise(w1, fail)
                ELSE Send(w1, Response(ListMessages(threads[turn.thread])))
       IN  IF fail # "retrieve" /\ observed \in PolledStatuses
           THEN /\ turn' = [turn EXCEPT !.status = observed]
                /\ UNCHANGED <<conv, user_data, users, sessions, threads, last>>
           ELSE IF ~Failed(w)
           THEN Done(u, w, "ONGOING", last.ev, Idle, FALSE)
           ELSE IF turn.kind = "finalize"
           THEN Done(u, Send(w, Reply(MsgApology)), "END", last.ev, Idle, FALSE)
           ELSE Escaped(u, w, last.ev)

\* The remote backend works on a run: queued, in progress, then completed
\* (the assistant's message is on the thread), failed, or waiting for a tool
\* output that this program never submits, until it expires.
RunAdvance(t, r) ==
    /\ t \in 1..Len(threads)
    /\ r \in 1..Len(threads[t].runs)
    /\ \/ /\ threads[t].runs[r] = "queued"
          /\ threads' = [threads EXCEPT ![t].runs[r] = "in_progress"]
       \/ /\ threads[t].runs[r] = "in_progress"
          /\ threads' = [threads EXCEPT
                            ![t].runs[r] = "completed",
                            ![t].msgs = Append(@, [role |-> "assistant",
                                                   content |-> [kind |-> "assistant", run |-> r]])]
       \/ /\ threads[t].runs[r] = "in_progress"
          /\ \E s \in {"failed", "requires_action"} :
                threads' = [threads EXCEPT ![t].runs[r] = s]
       \/ /\ threads[t].runs[r] = "requires_action"
          /\ threads' = [threads EXCEPT ![t].runs[r] = "expired"]
    /\ UNCHANGED <<conv, user_data, users, sessions, turn, last, starts>>

Next ==
    \/ \E u \in Users : Start(u)
    \/ \E u \in Users, fail \in ContactFails : HandleContact(u, fail)
    \/ \E u \in Users, text \in Texts : GetAge(u, text)
    \/ \E u \in Users, text \in Texts : GetWeight(u, text)
    \/ \E u \in Users, text \in Texts, fail \in FinalizeFails : GetHeight(u, text, fail)
    \/ \E u \in Users, text \in ChatTexts, fail \in MessageFails : HandleMessage(u, text, fail)
    \/ \E u \in Users : Cancel(u)
    \/ \E fail \in PollFails : PollRun(fail)
    \/ \E t \in 1..MaxThreads, r \in 1..MaxMsgs : RunAdvance(t, r)

Spec == Init /\ [][Next]_vars

\* Both users converse with the bot, each with one /start.
InitTwoUsers ==
    /\ conv = [u \in Users |-> "END"]
    /\ user_data = [u \in Users |-> EmptyDict]
    /\ \/ users = <<>> /\ sessions = <<>> /\ threads = <<>>
       \/ users = OldUsers /\ sessions = OldSessions /\ threads = <<NewThread, NewThread>>
    /\ turn = Idle
    /\ last = NoEvent
    /\ starts = [u \in Users |-> 1]

\* Two answers to the intake's questions: one that no validator takes and
\* one that all of them take.
ShortTexts == {T_abc, T_120}

\* Next, with the intake answered from ShortTexts.
NextShort ==
    \/ \E u \in Users : Start(u)
    \/ \E u \in Users, fail \in ContactFails : HandleContact(u, fail)
    \/ \E u \in Users, text \in ShortTexts : GetAge(u, text)
    \/ \E u \in Users, text \in ShortTexts : GetWeight(u, text)
    \/ \E u \in Users, text \in ShortTexts, fail \in FinalizeFails : GetHeight(u, text, fail)
    \/ \E u \in Users, text \in ChatTexts, fail \in MessageFails : HandleMessage(u, text, fail)
    \/ \E u \in Users : Cancel(u)
    \/ \E fail \in PollFails : PollRun(fail)
    \/ \E t \in 1..MaxThreads, r \in 1..MaxMsgs : RunAdvance(t, r)

SpecTwoUsers == InitTwoUsers /\ [][NextShort]_vars

\* A handler that waits on a run goes on polling: the loop of wait_on_run
\* sleeps half a second and retrieves the run again.  Nothing is assumed of
\* the remote run, which may stay queued or in progress forever.
FairSpec ==
    Init /\ [][NextShort]_vars /\ WF_vars(\E fail \in PollFails : PollRun(fail))

\* ------------------------------------------------------------- the claims

\* The validators as the specification states them: an age is an integer in
\* 1..120, a weight a real in (0, 500], a height a real in (0, 300].
IsValidAge(text) ==
    LET p == ParseInt(text) IN p.ok /\ 1 <= p.val /\ p.val <= 120

IsValidReal(text, max) ==
    LET p == ParseFloat(text)
    IN  p.ok /\ p.val.kind = "num" /\ 0 < p.val.num /\ p.val.num <= max * p.val.den

IsValidWeight(text) == IsValidReal(text, 500)
IsValidHeight(text) == IsValidReal(text, 300)

Count(seq, x) == Cardinality({i \in 1..Len(seq) : seq[i] = x})

\* C1 (as claimed): in GET_AGE, GET_WEIGHT and GET_HEIGHT, handling an input
\* that does not parse or is out of range leaves the conversation in its
\* state, sends exactly that state's error prompt, and changes neither the
\* draft profile nor the users rows nor the session rows.
C1_InvalidInputIsRejected ==
    [][\A u \in Users, text \in Texts :
        LET Rejected(prompt) ==
                /\ conv'[u] = conv[u]
                /\ last'.replies = <<Reply(prompt)>>
                /\ user_data' = user_data
                /\ users' = users
                /\ sessions' = sessions
        IN  /\ (GetAge(u, text) /\ ~IsValidAge(text)) => Rejected(MsgBadAge)
            /\ (GetWeight(u, text) /\ ~IsValidWeight(text)) => Rejected(MsgBadWeight)
            /\ ((\E fail \in FinalizeFails : GetHeight(u, text, fail)) /\ ~IsValidHeight(text))
                  => Rejected(MsgBadHeight)
      ]_vars

\* A valid answer handled with no failing call moves the conversation to
\* the next state: contact to GET_AGE, age to GET_WEIGHT, weight to
\* GET_HEIGHT, and height to ONGOING when the handler returns from its wait
\* on the run.  With new_only, the contact step is that of a user without a
\* users row.
ValidAnswerAdvances(u, text, new_only) ==
    /\ (HandleContact(u, "none") /\ (new_only => SelectUsers(users, u) = <<>>))
          => StateIndex(conv'[u]) = StateIndex(conv[u]) + 1
    /\ (GetAge(u, text) /\ IsValidAge(text))
          => StateIndex(conv'[u]) = StateIndex(conv[u]) + 1
    /\ (GetWeight(u, text) /\ IsValidWeight(text))
          => StateIndex(conv'[u]) = StateIndex(conv[u]) + 1
    /\ (GetHeight(u, text, "none") /\ IsValidHeight(text))
          => turn' = Waiting("finalize", u, [ud |-> user_data'[u], threads |-> threads'])
    /\ (PollRun("none") /\ turn.kind = "finalize" /\ turn.u = u /\ turn' = Idle)
          => StateIndex(conv'[u]) = StateIndex(conv[u]) + 1

\* C2 (as claimed): every valid answer advances the conversation by exactly
\* one state, so that ONGOING (state 4) is reached after exactly 4 valid
\* answers, for every user, with or without a users row.
C2_EveryUserTakesFourAnswers ==
    [][\A u \in Users, text \in Texts : ValidAnswerAdvances(u, text, FALSE)]_vars

\* C2 (amended): for a user without a users row, every valid answer handled
\* with no failing call advances the conversation by exactly one state, so
\* that ONGOING (state 4) is reached after exactly 4 valid answers; a user
\* with a users row is in ONGOING after the contact alone.
C2_NewUserTakesFourAnswers ==
    [][\A u \in Users, text \in Texts :
        /\ ValidAnswerAdvances(u, text, TRUE)
        /\ (HandleContact(u, "none") /\ SelectUsers(users, u) # <<>>)
              => conv'[u] = "ONGOING"
      ]_vars

\* C2 witness: a user went through contact, age, weight and height with
\* valid answers and is in ONGOING.
C2_Witness ==
    /\ last.ev = "height" /\ turn = Idle /\ conv[last.u] = "ONGOING"
    /\ user_data[last.u]["age"] = 120
    /\ user_data[last.u]["weight"] = Num(705, 10)
    /\ user_data[last.u]["height"] = Num(120, 1)

\* C3 (as claimed): every profile passed to the store's upsert has its six
\* fields, with 1 <= age <= 120, 0 < weight <= 500 and 0 < height <= 300.
C3_UpsertedProfileIsValid ==
    last.upserted # <<>> =>
        LET InRange(x, max) == x.kind = "num" /\ 0 < x.num /\ x.num <= max * x.den
        IN  /\ DOMAIN last.upserted = ProfileKeys
            /\ 1 <= last.upserted["age"] /\ last.upserted["age"] <= 120
            /\ InRange(last.upserted["weight"], 500)
            /\ InRange(last.upserted["height"], 300)

\* The step is a handler of u that called get_or_create_session, and the
\* call did not fail.
Reconciles(u) ==
    /\ \/ \E fail \in ContactFails : HandleContact(u, fail)
       \/ \E text \in Texts, fail \in FinalizeFails : GetHeight(u, text, fail)
    /\ last'.goc # "none"
    /\ last'.err \notin ReconcileFails

\* C4: once get_or_create_session has given a user a session, the next call
\* for that user returns the same thread id, creates no remote thread and
\* inserts no session row.
C4_GetOrCreateIsIdempotent ==
    [][\A u \in Users :
        (Reconciles(u) /\ Has(user_data[u], "session_id")) =>
            /\ user_data'[u]["thread_id"] = user_data[u]["thread_id"]
            /\ user_data'[u]["session_id"] = user_data[u]["session_id"]
            /\ Len(threads') = Len(threads)
            /\ Len(sessions') = Len(sessions)
      ]_vars

\* C4 witness: the store was empty, so the one session row was created by a
\* first call in this run, and the call of the last update found it.
C4_Witness ==
    /\ Len(sessions) = 1
    /\ last.goc = "found" /\ last.err = "none"
    /\ user_data[last.u]["session_id"] = sessions[1].id

AssistantMessages(thread) ==
    {i \in 1..Len(thread.msgs) : thread.msgs[i].role = "assistant"}

\* The intake of u has just ended in ONGOING through finalize_profile, which
\* found no session of the user and created one, and no call failed.
IntakeCompleted(u) ==
    /\ last.u = u /\ last.ev = "height" /\ last.err = "none" /\ last.goc = "created"
    /\ turn = Idle /\ conv[u] = "ONGOING"

\* C5: after a full intake of a new user with no failing call, the profile
\* was upserted once, one session row and one thread were created, one user
\* message was posted and one run started on that thread, and the last reply
\* is the text of the assistant's latest message on the thread (which a
\* completed run has written).
C5_FullIntakeOfNewUser ==
    \A u \in Users : IntakeCompleted(u) =>
        LET t == user_data[u]["thread_id"]
            thread == threads[t]
            mine == {i \in 1..Len(sessions) : sessions[i].user_id = user_data[u]["id"]}
            written == AssistantMessages(thread)
            latest == CHOOSE i \in written : \A j \in written : j <= i
        IN  /\ Count(last.calls, "users.upsert") = 1
            /\ Cardinality({i \in 1..Len(users) : users[i].telegram_id = u}) = 1
            /\ Count(last.calls, "create_thread") = 1
            /\ Count(last.calls, "sessions.insert") = 1
            /\ Cardinality(mine) = 1
            /\ \A i \in mine : sessions[i].thread_id = t /\ sessions[i].state = "ONGOING"
            /\ Count(last.calls, "create_message") = 1
            /\ Cardinality({i \in 1..Len(thread.msgs) : thread.msgs[i].role = "user"}) = 1
            /\ Count(last.calls, "create_run") = 1
            /\ Len(thread.runs) = 1
            /\ thread.runs[1] = "completed" => written # {}
            /\ written # {} =>
                  last.replies[Len(last.replies)] =
                      ReplyAssistant(thread.msgs[latest].content.run)

\* C5 witness: such an intake, whose run completed and whose reply is the
\* assistant's message.
C5_Witness ==
    \E u \in Users :
        /\ IntakeCompleted(u)
        /\ threads[user_data[u]["thread_id"]].runs = <<"completed">>
        /\ last.replies = <<Reply(MsgForwarded), ReplyAssistant(1)>>

\* C6 (as claimed): when create_run reports that the thread already has an
\* active run, the handler waits on that run and replies to the user.
C6_ConflictWaitsOnActiveRun ==
    last.err = "active_run" =>
        \/ turn # Idle
        \/ \E i \in 1..Len(last.replies) : last.replies[i].text \in {"assistant", MsgNoResponse}

\* C7 (as claimed): when the first message or run attempt of a turn on the
\* stored session's thread fails, one replacement thread is created, the
\* session row points to it, and the message is posted again, once.
C7_UnusableThreadIsReplaced ==
    (last.ev = "message" /\ last.err \in {"create_message", "create_run"}) =>
        /\ Count(last.calls, "create_thread") = 1
        /\ Count(last.calls, "create_message") = 2
        /\ \E i \in 1..Len(sessions) :
              /\ sessions[i].id = user_data[last.u]["session_id"]
              /\ sessions[i].thread_id = Len(threads)

\* C8 (as claimed): a store or remote call that fails while an intake event
\* is handled (contact, or height with finalize_profile) leaves the user
\* without a conversation.
C8_IntakeFailureCancels ==
    (last.ev \in {"contact", "height"} /\ last.err # "none" /\ turn = Idle) =>
        conv[last.u] = "END"

\* The step ends a turn of u's ongoing chat with a failed remote call.
ChatTurnFails(u) ==
    /\ \/ \E text \in ChatTexts, fail \in MessageFails : HandleMessage(u, text, fail)
       \/ turn.kind = "message" /\ turn.u = u /\ \E fail \in PollFails : PollRun(fail)
    /\ last'.err # "none"

\* C9: a remote call (post message, start run, poll run, list messages) that
\* fails in a turn of the ongoing chat ends the turn and leaves the
\* conversation in ONGOING with the same thread id, so that handle_message
\* takes the user's next text.
C9_ChatFailureKeepsOngoing ==
    [][\A u \in Users :
        ChatTurnFails(u) =>
            /\ last'.err \in {"create_message", "create_run", "active_run",
                              "retrieve", "list_messages"}
            /\ conv[u] = "ONGOING" /\ conv'[u] = "ONGOING"
            /\ turn' = Idle
            /\ user_data'[u]["thread_id"] = user_data[u]["thread_id"]
      ]_vars

\* C9 witness: a poll of the run failed in a turn of the ongoing chat.
C9_Witness ==
    /\ last.ev = "message" /\ last.err = "retrieve" /\ last.escaped
    /\ conv[last.u] = "ONGOING" /\ turn = Idle

\* C10 (as claimed): every failed store or remote call, the active-run
\* conflict aside, is answered with exactly one apology.
C10_FailureIsAnsweredOnce ==
    (last.err \notin {"none", "active_run"} /\ turn = Idle) =>
        Count(last.replies, Reply(MsgApology)) = 1

\* C11 (as claimed): ONGOING is terminal: once a user's conversation is in
\* ONGOING, no step moves it to another state (so that the user cannot enter
\* ONGOING a second time either).
C11_OngoingIsTerminal ==
    [][\A u \in Users : conv[u] = "ONGOING" => conv'[u] = "ONGOING"]_vars

IntakeStates == {"SHARE_CONTACT", "GET_AGE", "GET_WEIGHT", "GET_HEIGHT"}

\* C12: from each intake state, /cancel ends the conversation in one step,
\* answering with the cancellation text only: no store call, no users or
\* session row written, no thread, message or run created; and a user without
\* a conversation gets one only by /start, which begins a new intake.
C12_CancelEndsIntake ==
    [][\A u \in Users :
        /\ (Cancel(u) /\ conv[u] \in IntakeStates) =>
              /\ conv'[u] = "END"
              /\ last'.replies = <<Reply(MsgCancelled)>>
              /\ last'.calls = <<>>
              /\ users' = users /\ sessions' = sessions /\ threads' = threads
        /\ (conv[u] = "END" /\ conv'[u] # "END") =>
              Start(u) /\ conv'[u] = "SHARE_CONTACT"
      ]_vars

\* C12 witness: an intake that had taken the age and the weight was
\* cancelled in GET_HEIGHT.
C12_Witness ==
    /\ last.ev = "cancel" /\ conv[last.u] = "END"
    /\ Has(user_data[last.u], "weight") /\ ~Has(user_data[last.u], "height")

\* C13: session rows evolve monotonically.  No step deletes a session row,
\* changes a row's id, user or thread, or takes a row out of ONGOING; and a
\* get_or_create_session that finds rows of the user takes the one created
\* last (its id and thread id go to user_data), leaves it in ONGOING whatever
\* its state was, and changes no other row.
C13_SessionRowsAreMonotonic ==
    [][/\ Len(sessions') >= Len(sessions)
       /\ \A i \in 1..Len(sessions) :
             /\ sessions'[i].id = sessions[i].id
             /\ sessions'[i].user_id = sessions[i].user_id
             /\ sessions'[i].thread_id = sessions[i].thread_id
             /\ sessions[i].state = "ONGOING" => sessions'[i].state = "ONGOING"
       /\ \A u \in Users :
             (Reconciles(u) /\ last'.goc = "found") =>
                LET mine == {i \in 1..Len(sessions) :
                                sessions[i].user_id = user_data'[u]["id"]}
                    newest == CHOOSE i \in mine : \A j \in mine : j <= i
                IN  /\ mine # {}
                    /\ user_data'[u]["session_id"] = sessions[newest].id
                    /\ user_data'[u]["thread_id"] = sessions[newest].thread_id
                    /\ sessions'[newest].state = "ONGOING"
                    /\ Len(sessions') = Len(sessions)
                    /\ \A i \in 1..Len(sessions) \ {newest} : sessions'[i] = sessions[i]
      ]_vars

\* C13 witness: of the two rows an earlier run left for the user, the newer
\* one was found and promoted to ONGOING, and the older one is as it was.
C13_Witness ==
    /\ last.goc = "found" /\ last.err = "none"
    /\ Len(sessions) = 2
    /\ sessions[1] = OldSessions[1]
    /\ sessions[2] = [OldSessions[2] EXCEPT !.state = "ONGOING"]
    /\ user_data[last.u]["session_id"] = OldSessions[2].id

ActiveRuns(thread) == {r \in 1..Len(thread.runs) : thread.runs[r] \in ActiveStatuses}

C15_OtherUserIsServedDuringWait ==
    \A u \in Users : \A v \in Users \ {u} :
        (/\ turn # Idle
         /\ turn.u = u
         /\ threads[turn.thread].runs[turn.run] \in {"queued", "in_progress"}) =>
            /\ (conv[v] = "END" /\ starts[v] > 0) => ENABLED Start(v)
            /\ conv[v] = "SHARE_CONTACT" => ENABLED HandleContact(v, "none")
            /\ conv[v] = "GET_AGE" => ENABLED GetAge(v, T_120)
            /\ conv[v] = "ONGOING" => ENABLED HandleMessage(v, T_abc, "none")
            /\ conv[v] # "END" => ENABLED Cancel(v)

\* The run the waiting handler polls has left "queued" and "in_progress".
RunLeftPolledStates ==
    /\ turn # Idle
    /\ threads[turn.thread].runs[turn.run] \notin {"queued", "in_progress"}

\* The turn has ended, with a reply (the assistant's message or the fallback
\* text) unless one of its calls failed.
TurnEnded ==
    /\ turn = Idle
    /\ last.err = "none" =>
          /\ last.replies # <<>>
          /\ last.replies[Len(last.replies)].text \in {"assistant", MsgNoResponse}

\* C16: the wait on a run ends exactly when the status read is neither
\* "queued" nor "in_progress".  A poll that reads one of the two keeps the
\* handler waiting, and while it waits no event is handled (the conversation
\* states, user_data and the last handled event stay as they are), so a run
\* that stays there forever stalls the turn and every later event; only a
\* poll ends the wait.  Once the run has left the two states, the turn
\* eventually ends, with a reply to the user when no call of the turn failed.
C16_WaitEndsWhenRunLeavesPolledStates ==
    /\ [][turn # Idle =>
            /\ PollRun("none") =>
                  (turn' = Idle <=>
                      threads[turn.thread].runs[turn.run] \notin {"queued", "in_progress"})
            /\ turn' = Idle => \E fail \in PollFails : PollRun(fail)
            /\ turn' # Idle =>
                  /\ turn'.run = turn.run /\ turn'.thread = turn.thread
                  /\ conv' = conv /\ user_data' = user_data /\ last' = last
         ]_vars
    /\ RunLeftPolledStates ~> TurnEnded

\* C16 witness: the run of a chat turn went from in progress to waiting for
\* an action; the wait ended there and the turn replied with the fallback.
C16_Witness ==
    /\ turn = Idle /\ last.ev = "message" /\ last.err = "none"
    /\ conv[last.u] = "ONGOING"
    /\ threads[user_data[last.u]["thread_id"]].runs = <<"requires_action">>
    /\ last.replies = <<Reply(MsgNoResponse)>>

\* The store holds a profile of u and no session row of that profile: what
\* finalize_profile leaves when its upsert succeeds and its session creation
\* fails.
ProfileWithoutSession(u) ==
    /\ SelectUsers(users, u) # <<>>
    /\ \A i \in 1..Len(sessions) : sessions[i].user_id # SelectUsers(users, u)[1].id

\* C17: when the store holds the user's profile and no session row, the
\* contact step of the user's next pass, with no failing call, creates one
\* thread and one session row (of that user, on that thread, ONGOING) and
\* puts the conversation in ONGOING with that thread id in user_data; a text
\* that follows is posted, and its run started, on the thread of user_data,
\* which is the thread of a session row of the user.
C17_NextPassCreatesMissingSession ==
    [][\A u \in Users :
        /\ (HandleContact(u, "none") /\ ProfileWithoutSession(u)) =>
              /\ Len(threads') = Len(threads) + 1
              /\ Len(sessions') = Len(sessions) + 1
              /\ SubSeq(sessions', 1, Len(sessions)) = sessions
              /\ sessions'[Len(sessions')].user_id = SelectUsers(users, u)[1].id
              /\ sessions'[Len(sessions')].thread_id = Len(threads')
              /\ sessions'[Len(sessions')].state = "ONGOING"
              /\ Count(last'.calls, "create_thread") = 1
              /\ Count(last'.calls, "sessions.insert") = 1
              /\ conv'[u] = "ONGOING"
              /\ user_data'[u]["thread_id"] = Len(threads')
              /\ user_data'[u]["session_id"] = sessions'[Len(sessions')].id
        /\ (HandleMessage(u, T_abc, "none") /\ last'.err = "none") =>
              LET t == user_data[u]["thread_id"]
              IN  /\ threads'[t].msgs =
                        Append(threads[t].msgs,
                               [role |-> "user", content |-> [kind |-> "text", text |-> T_abc]])
                  /\ threads'[t].runs = Append(threads[t].runs, "queued")
                  /\ \E i \in 1..Len(sessions) :
                        /\ sessions[i].user_id = user_data[u]["id"]
                        /\ sessions[i].thread_id = t
      ]_vars

\* C17 witness: the store was empty; the intake of the user saved the
\* profile and failed to create the session, and the contact of the next
\* pass created the one session row there is.
C17_Witness ==
    /\ last.ev = "contact" /\ last.goc = "created" /\ last.err = "none"
    /\ conv[last.u] = "ONGOING"
    /\ Len(users) = 1 /\ users[1].name = FullName(ContactOf(last.u))
    /\ Len(sessions) = 1 /\ sessions[1].user_id = users[1].id

\* C18: a turn that ends with no failed call replies, last, with the text of
\* the most recent message of the assistant on its thread, or with "No
\* response from assistant." when the thread has no such message, and the
\* conversation is in ONGOING.
C18_ReplyIsLatestAssistantMessage ==
    [][\A fail \in PollFails :
        (PollRun(fail) /\ turn' = Idle /\ last'.err = "none") =>
            LET thread == threads[turn.thread]
                written == AssistantMessages(thread)
                latest == CHOOSE i \in written : \A j \in written : j <= i
            IN  /\ last'.replies =
                      Append(last.replies,
                             IF written = {} THEN Reply(MsgNoResponse)
                             ELSE ReplyAssistant(thread.msgs[latest].content.run))
                /\ conv'[turn.u] = "ONGOING"
      ]_vars

\* C18 witness: the thread holds two messages of the assistant, and the
\* reply of the turn is the second one.
C18_Witness ==
    /\ turn = Idle /\ last.ev = "message" /\ last.err = "none"
    /\ conv[last.u] = "ONGOING"
    /\ Cardinality(AssistantMessages(threads[user_data[last.u]["thread_id"]])) = 2
    /\ last.replies = <<ReplyAssistant(2)>>

\* C19 (as claimed): the assistant's message a turn delivers was written by
\* the run of that turn; a turn whose run ends otherwise than completed
\* delivers no assistant message of an earlier turn.
C19_ReplyIsOfThisTurnsRun ==
    [][\A fail \in PollFails :
        (PollRun(fail) /\ turn' = Idle) =>
            \A i \in 1..Len(last'.replies) :
                last'.replies[i].text = "assistant" => last'.replies[i].ref = turn.run
      ]_vars

\* C20: whenever a user's conversation is in ONGOING, user_data holds the
\* user's row id, a thread id and a session id; the store has session rows
\* of that user, and the one created last is the row of that session id, on
\* that thread, in state ONGOING.
C20_OngoingHasItsSession ==
    \A u \in Users :
        conv[u] = "ONGOING" =>
            /\ {"id", "thread_id", "session_id"} \subseteq DOMAIN user_data[u]
            /\ LET mine == {i \in 1..Len(sessions) :
                               sessions[i].user_id = user_data[u]["id"]}
                   newest == CHOOSE i \in mine : \A j \in mine : j <= i
               IN  /\ mine # {}
                   /\ sessions[newest].id = user_data[u]["session_id"]
                   /\ sessions[newest].thread_id = user_data[u]["thread_id"]
                   /\ sessions[newest].state = "ONGOING"
                   /\ user_data[u]["thread_id"] \in 1..Len(threads)

\* C20 witness: next to the two session rows an earlier run left for
\* another user, a new user went through the intake and is in ONGOING with
\* the third row.
C20_Witness ==
    \E u \in Users :
        /\ conv[u] = "ONGOING" /\ last.u = u /\ last.ev = "height" /\ turn = Idle
        /\ Len(sessions) = 3
        /\ user_data[u]["session_id"] = sessions[3].id

====
